---- MODULE Spec2Model ----
(***************************************************************************)
(* node-web-modules: the request-dispatch chain                            *)
(*   ExpressMiddleware -> Module -> RequestHandler -> Controller -> Model   *)
(* together with the deferred Model wait-list, the CommandController /      *)
(* MessageController command life cycle and the ObjectDataBinder.           *)
(*                                                                         *)
(* JavaScript is run-to-completion: a request is processed by one          *)
(* synchronous call chain.  The chain is modelled one function call per     *)
(* step (pc), and nothing else may run while pc # "idle".                   *)
(***************************************************************************)
EXTENDS Integers, Sequences, FiniteSets, TLC

VARIABLES
  \* ---- WebModules.Model (lib/Model.js) --------------------------------
  model,        \* the Model under test: [id, data, deferred, callbacks]
  modelOp,      \* the last operation applied to it: [op, cb, was]
  modelCalls,   \* callbacks invoked by that operation, in invocation order
  modelWaited,  \* history: the callbacks handed to wait() so far, in order
  \* ---- WebModules.ObjectDataBinder (lib/ObjectDataBinder.js) ----------
  host,         \* the host object: property name -> value
  hostBefore,   \* the host before the last bind()
  bindArgs,     \* the arguments p1..pn of the last bind()
  \* ---- CommandController / MessageController --------------------------
  ctlOptions,   \* the options the CommandController was constructed with
  ctlRequest,   \* the request given to the last handle()
  ctlViewName,  \* the viewName the CommandController was constructed with
  ctlOp,        \* the last controller operation: "new", "handle", "message"
  cmdCount,     \* number of commands the factory has built so far
  cmdTrace,     \* what the last handle() did, in order
  cmdResult,    \* what execute() returned in the last handle()
  handled,      \* what the last handle() returned
  cmdExecuted,  \* history: the commands execute() was invoked on, in order
  modelCount,   \* number of Model objects constructed so far
  \* ---- ExpressMiddleware / Module / RequestHandler --------------------
  modules,      \* modulesDescriptions, each with its module's state
  pc,           \* position of the request being processed
  req,          \* the request being processed: [pathname]
  mi,           \* processNextModule's index (1-based)
  ei,           \* processNextEndpoint's index (1-based)
  filt,         \* processFilter's argument (NoFilter when undefined)
  filterList,   \* processFilters' filterList (what is left of it)
  log,          \* calls made while processing the current request
  res,          \* writes to the current request's response
  returned,     \* what the command's execute() did in the current request
  inflight,     \* deferred models whose response is not written yet
  \* ---- MultiPathViewResolver / ExpressMiddleware.lookup ---------------
  engines,      \* the keys of app.engines, in the order for-in visits them
  files,        \* the file names for which fs.existsSync is true
  viewPaths,    \* the view resolver's viewPaths
  viewOp,       \* the last operation: addViewPath or render, and its result
  \* ---- WebModules.DeploymentAgent (lib/DeploymentAgent.js) ------------
  rootFiles,    \* what fs.readdir gives for rootDir: [err, files]
  agentOptions, \* the options the agent was constructed with
  required,     \* the module paths handed to require(), in order
  appRoutes,    \* the routes registered with app.all(), in order
  deployOp,     \* the last operation: deploy, the readdir callback or a
                \* request, and its outcome
  agentPc       \* the agent's position: "new", "listing" (deploy() has
                \* returned, fs.readdir is pending), "listed"

modelVars == <<model, modelOp, modelCalls, modelWaited>>
bindVars  == <<host, hostBefore, bindArgs>>
ctlVars   == <<ctlOptions, ctlRequest, ctlViewName, ctlOp, cmdCount,
              cmdTrace, cmdResult, handled, cmdExecuted,
              modelCount>>
mwVars    == <<modules, pc, req, mi, ei, filt, filterList, log, res, returned,
              inflight>>
viewVars  == <<engines, files, viewPaths, viewOp>>
deployVars == <<rootFiles, agentOptions, required, appRoutes, deployOp,
               agentPc>>
vars      == <<modelVars, bindVars, ctlVars, mwVars, viewVars, deployVars>>

----------------------------------------------------------------------------
(* JavaScript values.  Every kind has its own field name, so that two      *)
(* values of different kinds are simply unequal.                           *)

Undefined == [t |-> "undefined"]
Null      == [t |-> "null"]
Num(n)    == [t |-> "number", n |-> n]
Str(s)    == [t |-> "string", s |-> s]
Bool(b)   == [t |-> "boolean", b |-> b]
Obj(o)    == [t |-> "object", o |-> o]

\* The empty object literal {}.
EmptyObject == Obj(<<>>)

\* ToBoolean, as used by ||, ! and if.
Truthy(v) ==
  CASE v.t = "undefined" -> FALSE
    [] v.t = "null"      -> FALSE
    [] v.t = "number"    -> v.n # 0
    [] v.t = "string"    -> v.s # ""
    [] v.t = "boolean"   -> v.b
    [] OTHER             -> TRUE

\* a || b
Or(a, b) == IF Truthy(a) THEN a ELSE b

----------------------------------------------------------------------------
(* WebModules.Model                                                        *)

MaxCallbacks == 3          \* longest wait-list explored
Callbacks    == 1 .. 3     \* the callback functions handed to wait()

\* new WebModules.Model(theData): data is theData || {}, not deferred,
\* empty wait-list.
Model(id, theData) ==
  [t |-> "Model", id |-> id, data |-> Or(theData, EmptyObject),
   deferred |-> FALSE, callbacks |-> <<>>]

\* notify(): calls callbacks[0], callbacks[1], ... in that order.
notify(m) == m.callbacks

defer(m) == [m EXCEPT !.deferred = TRUE]

\* resume(): the model afterwards, and the callbacks it invokes.
resumeModel(m) == m
resumeCalls_NoGuard(m) == notify(m)
resumeCalls(m) == IF m.deferred THEN notify(m) ELSE <<>>

\* wait(callback): the model afterwards, and the callbacks it invokes.
waitModel_Unshift(m, cb) == [m EXCEPT !.callbacks = <<cb>> \o @]
waitModel(m, cb) == [m EXCEPT !.callbacks = Append(@, cb)]
waitCalls_Never(m, cb) == <<>>
waitCalls(m, cb) ==
  IF ~ m.deferred THEN notify(waitModel(m, cb)) ELSE <<>>

ModelDefer ==
  /\ model' = defer(model)
  /\ modelOp' = [op |-> "defer", cb |-> 0, was |-> model.deferred]
  /\ modelCalls' = <<>>
  /\ UNCHANGED <<modelWaited, bindVars, ctlVars, mwVars, viewVars, deployVars>>

ModelResume ==
  /\ model' = resumeModel(model)
  /\ modelOp' = [op |-> "resume", cb |-> 0, was |-> model.deferred]
  /\ modelCalls' = resumeCalls(model)
  /\ UNCHANGED <<modelWaited, bindVars, ctlVars, mwVars, viewVars, deployVars>>

ModelWait(cb) ==
  /\ Len(model.callbacks) < MaxCallbacks
  /\ model' = waitModel(model, cb)
  /\ modelOp' = [op |-> "wait", cb |-> cb, was |-> model.deferred]
  /\ modelCalls' = waitCalls(model, cb)
  /\ modelWaited' = Append(modelWaited, cb)
  /\ UNCHANGED <<bindVars, ctlVars, mwVars, viewVars, deployVars>>

InitModel ==
  /\ model = Model(1, Undefined)
  /\ modelOp = [op |-> "new", cb |-> 0, was |-> FALSE]
  /\ modelCalls = <<>>
  /\ modelWaited = <<>>

NextModel ==
  \/ ModelDefer
  \/ ModelResume
  \/ \E cb \in Callbacks : ModelWait(cb)

----------------------------------------------------------------------------
(* WebModules.extend (Utils.js) and WebModules.ObjectDataBinder            *)
(* An object is a function from its own property names to their values.    *)

Names     == {"a", "b"}          \* property names
Values    == {0, 1}              \* property values
MaxParams == 2                   \* most arguments given to one bind()

Objects == UNION {[d -> Values] : d \in SUBSET Names}

\* What may be passed as one argument of bind(): an object, null or
\* undefined.
BindParams == {Obj(o) : o \in Objects} \cup {Null, Undefined}

\* extend(target, source): target with every property of source copied
\* over it.
extend(target, source) ==
  [n \in DOMAIN target \cup DOMAIN source |->
     IF n \in DOMAIN source THEN source[n] ELSE target[n]]

\* The first loop of bind(): var fields = {}; every truthy argument is
\* extended into it, in argument order.
RECURSIVE collectFields(_, _)
collectFields(fields, args) ==
  IF args = <<>> THEN fields
  ELSE collectFields(IF Truthy(Head(args)) THEN extend(fields, Head(args).o)
                     ELSE fields,
                     Tail(args))

\* bind(p1, ..., pn): the host afterwards.
bind_NoOwnCheck(h, args) == extend(h, collectFields(<<>>, args))
bind(h, args) ==
  LET fields == collectFields(<<>>, args)
  IN  [n \in DOMAIN h |-> IF n \in DOMAIN fields THEN fields[n] ELSE h[n]]

Bind(args) ==
  /\ hostBefore' = host
  /\ bindArgs' = args
  /\ host' = bind(host, args)
  /\ UNCHANGED <<modelVars, ctlVars, mwVars, viewVars, deployVars>>

IdleBind ==
  /\ host = <<>>
  /\ hostBefore = <<>>
  /\ bindArgs = <<>>

InitBind ==
  /\ host \in Objects
  /\ hostBefore = host
  /\ bindArgs = <<>>

NextBind ==
  \E n \in 1 .. MaxParams : \E args \in [1 .. n -> BindParams] : Bind(args)

----------------------------------------------------------------------------
(* WebModules.Redirect, WebModules.ModelAndView, CommandController and     *)
(* MessageController                                                       *)

MaxCommands == 3     \* handle() calls explored per controller history

\* new WebModules.Redirect(target, status, options)
Redirect(target, status, options) ==
  [t |-> "Redirect", path |-> target, status |-> Or(status, Num(302)),
   options |-> Or(options, EmptyObject)]

\* new WebModules.ModelAndView(theViewName, theModel); nm is the id a Model
\* constructed here would get.  redirect is null until sendRedirect().
ModelAndView(theViewName, theModel, nm) ==
  [viewName |-> theViewName,
   model    |-> Or(theModel, Model(nm, Undefined)),
   redirect |-> Null]

sendRedirect(m, theRedirect) == [m EXCEPT !.redirect = theRedirect]
getRedirect(m) == m.redirect

\* The four private flags of the constructor:
\*   (options.x !== undefined) ? options.x : <default>
OptionValues == {Undefined, Bool(TRUE), Bool(FALSE)}
OptionNames  == {"bindRouteParams", "bindRequestParams", "bindRequestBody",
                 "bindCookies"}
optionDefault_AllTrue(name) == Bool(TRUE)
optionDefault(name) == IF name = "bindCookies" THEN Bool(FALSE) ELSE Bool(TRUE)
CommandController(options) ==
  [name \in OptionNames |->
     IF options[name] # Undefined THEN options[name] ELSE optionDefault(name)]

\* A freshly constructed command: its public attributes.
NewCommand == [n \in {"a", "b"} |-> 0]

\* WebModules.bind(command, params) (Utils.js): binds one source onto the
\* command the way the ObjectDataBinder does.
WebModulesBind(command, params) == bind(command, <<params>>)

\* The request parts handle() may bind: each is absent or an object.
\* Every source writes its own value, so that a property tells who wrote it.
Requests == [params  : {Undefined, Obj([n \in {"a"} |-> 1])},
             query   : {Undefined, Obj([n \in {"a"} |-> 2])},
             body    : {Undefined, Obj([n \in {"a", "c"} |-> 3])},
             cookies : {Undefined, Obj([n \in {"a", "b"} |-> 4])}]
Messages == {Undefined, Obj([n \in {"a", "c"} |-> 5])}

\* What execute() may return: a Model the command built (deferred or not),
\* a Redirect, or any other value.
PlainResults == {Undefined, Null, Num(0), Num(7), Str(""), Bool(FALSE),
                 Obj([n \in {"a"} |-> 1])}
ModelResults(nm) == {Model(nm, Obj([n \in {"a"} |-> 1])),
                     defer(Model(nm, Undefined))}
RedirectResults == {Redirect(Str("/a/x"), Undefined, Undefined),
                    Redirect(Str("/a/x"), Num(301), Undefined)}
Results(nm) == PlainResults \cup ModelResults(nm) \cup RedirectResults
\* The kinds of value among them.
ResultKinds == {"undefined", "null", "number", "string", "boolean",
                "object", "Model", "Redirect"}

\* The bindings handle() performs, in order, as <<source, params>> pairs.
bindings(flags, request) ==
  (IF Truthy(flags["bindRouteParams"])
     THEN << <<"params", request.params>> >> ELSE <<>>) \o
  (IF Truthy(flags["bindRequestParams"])
     THEN << <<"query", request.query>> >> ELSE <<>>) \o
  (IF Truthy(flags["bindRequestBody"])
     THEN << <<"body", request.body>> >> ELSE <<>>) \o
  (IF Truthy(flags["bindCookies"])
     THEN << <<"cookies", request.cookies>> >> ELSE <<>>)

RECURSIVE bindAll(_, _)
bindAll(command, bs) ==
  IF bs = <<>> THEN command
  ELSE bindAll(WebModulesBind(command, Head(bs)[2]), Tail(bs))

\* The last part of CommandController.handle(): wraps what execute()
\* returned.  nm is the id of a Model constructed here.
wrapResult_NoRedirect(result, theViewName, nm) ==
  IF result.t = "Model" THEN ModelAndView(theViewName, result, nm)
  ELSE ModelAndView(theViewName, Model(nm, result), nm)
wrapResult(result, theViewName, nm) ==
  IF result.t = "Model"
    THEN ModelAndView(theViewName, result, nm)
  ELSE IF result.t = "Redirect"
    THEN sendRedirect(ModelAndView(Undefined, Undefined, nm), result)
  ELSE ModelAndView(theViewName, Model(nm, result), nm + 1)

\* parseViewName(params) with params = {}: viewName || "".
parseViewName(viewName) == Or(viewName, Str(""))

\* The calls handle() makes, in order, for command c.
handleTrace_ExecuteFirst(c, bs, bound) ==
  << [ev |-> "create", c |-> c, src |-> "", props |-> NewCommand],
     [ev |-> "execute", c |-> c, src |-> "", props |-> NewCommand] >> \o
  [i \in 1 .. Len(bs) |->
     [ev |-> "bind", c |-> c, src |-> bs[i][1],
      props |-> bindAll(NewCommand, SubSeq(bs, 1, i))]]
handleTrace(c, bs, bound) ==
  << [ev |-> "create", c |-> c, src |-> "", props |-> NewCommand] >> \o
  [i \in 1 .. Len(bs) |->
     [ev |-> "bind", c |-> c, src |-> bs[i][1],
      props |-> bindAll(NewCommand, SubSeq(bs, 1, i))]] \o
  << [ev |-> "execute", c |-> c, src |-> "", props |-> bound] >>

\* createCommand(): the factory "function () { return new CommandClass() }"
\* builds a new command on every call.
createCommand(n) == n + 1

NewController(options, viewName) ==
  /\ ctlOptions' = options
  /\ ctlRequest' = Undefined
  /\ ctlViewName' = viewName
  /\ ctlOp' = "new"
  /\ cmdTrace' = <<>>
  /\ cmdResult' = Undefined
  /\ handled' = Undefined
  /\ UNCHANGED <<cmdCount, cmdExecuted, modelCount>>
  /\ UNCHANGED <<modelVars, bindVars, mwVars, viewVars, deployVars>>

\* CommandController.handle(request, response), for a command whose
\* execute() returns a value of one of kinds.
ControllerHandle(request, kinds) ==
  /\ cmdCount < MaxCommands
  /\ LET c     == createCommand(cmdCount)
         bs    == bindings(CommandController(ctlOptions), request)
         bound == bindAll(NewCommand, bs)
     IN  \E result \in {r \in Results(modelCount + 1) : r.t \in kinds} :
           /\ cmdCount' = cmdCount + 1
           /\ cmdTrace' = handleTrace(c, bs, bound)
           /\ cmdExecuted' = Append(cmdExecuted, c)
           /\ cmdResult' = result
           /\ handled' = wrapResult(result, parseViewName(ctlViewName),
                                    modelCount + 1 +
                                      (IF result.t = "Model" THEN 1 ELSE 0))
           /\ modelCount' = handled'.model.id
  /\ ctlOp' = "handle"
  /\ ctlRequest' = request
  /\ UNCHANGED <<ctlOptions, ctlViewName, modelVars, bindVars, mwVars, viewVars, deployVars>>

\* MessageController.handle(message)
MessageHandle(message) ==
  /\ cmdCount < MaxCommands
  /\ LET c     == createCommand(cmdCount)
         bs    == << <<"message", message>> >>
         bound == bind(NewCommand, <<message>>)
     IN  \E result \in Results(modelCount + 1) :
           /\ cmdCount' = cmdCount + 1
           /\ cmdTrace' = handleTrace(c, bs, bound)
           /\ cmdExecuted' = Append(cmdExecuted, c)
           /\ cmdResult' = result
           /\ handled' = IF result.t # "Model"
                           THEN Model(modelCount + 1, result)
                           ELSE result
           /\ modelCount' = modelCount + 1
  /\ ctlOp' = "message"
  /\ ctlRequest' = Undefined
  /\ UNCHANGED <<ctlOptions, ctlViewName, modelVars, bindVars, mwVars, viewVars, deployVars>>

IdleCtl ==
  /\ ctlOptions = [name \in OptionNames |-> Undefined]
  /\ ctlRequest = Undefined
  /\ ctlViewName = Undefined
  /\ ctlOp = "new"
  /\ cmdCount = 0
  /\ cmdTrace = <<>>
  /\ cmdResult = Undefined
  /\ handled = Undefined
  /\ cmdExecuted = <<>>
  /\ modelCount = 0


\* Controllers constructed with every option given, and their requests.
NextCtl ==
  \/ \E options \in [OptionNames -> OptionValues \ {Undefined}],
        viewName \in {Undefined, Str("index")} :
       NewController(options, viewName)
  \/ \E request \in Requests : ControllerHandle(request, ResultKinds)
  \/ \E message \in Messages : MessageHandle(message)

\* A controller constructed with any of its options given or left out.
InitOptions ==
  /\ ctlOptions \in [OptionNames -> OptionValues]
  /\ ctlRequest = Undefined
  /\ ctlViewName = Undefined
  /\ ctlOp = "new"
  /\ cmdCount = 0
  /\ cmdTrace = <<>>
  /\ cmdResult = Undefined
  /\ handled = Undefined
  /\ cmdExecuted = <<>>
  /\ modelCount = 0

\* Its requests, for a command that returns an object.
NextOptions ==
  \E request \in Requests : ControllerHandle(request, {"object"})

----------------------------------------------------------------------------
(* Strings.  A string is the sequence of its characters, so that indexOf,  *)
(* replace and the route pattern are computed, not assumed.                *)

\* s.indexOf(sub): the first position (0-based) sub occurs at, else -1.
indexOf(s, sub) ==
  LET hits == {i \in 0 .. Len(s) - Len(sub) :
                 SubSeq(s, i + 1, i + Len(sub)) = sub}
  IN  IF hits = {} THEN -1
      ELSE CHOOSE i \in hits : \A j \in hits : i <= j

\* s.replace(sub, ""): s without the first occurrence of sub.
replace(s, sub) ==
  LET i == indexOf(s, sub)
  IN  IF i = -1 THEN s
      ELSE SubSeq(s, 1, i) \o SubSeq(s, i + Len(sub) + 1, Len(s))

\* new RegExp("^" + path + "$").test(s).  The route paths of the model are
\* made of "/" and letters only, which a pattern matches literally.
patternTest(path, s) == s = path

----------------------------------------------------------------------------
(* ExpressMiddleware, Module (third revision: Module(contextPath,          *)
(* middleware, configuration)) and RequestHandler (second revision)        *)

MaxModules   == 2    \* modules registered
MaxEndpoints == 2    \* endpoints over all modules, constructor routes included
MaxFilters   == 2    \* filters over all modules
MaxOrder     == 1    \* largest filter order used

ContextPaths == { <<"/", "a">>, <<"/", "b">> }
RoutePaths   == { <<"/">>, <<"/", "x">> }
Pathnames    == { <<"/", "a">>, <<"/", "a", "/", "x">>, <<"/", "b">> }
\* Config.routes as given to the constructor, in property order.
ConfigRoutes == { <<>>, << <<"/", "x">> >> }
Orders       == 0 .. MaxOrder
NoFilter     == 0    \* filterList.shift() of an empty list: undefined
\* What a filter's execute() does with its chain.
\* "throw" throws an Error object, "throwFalsy" a falsy value (throw 0).
Behaviours   == {"next", "stop", "return", "throw", "throwFalsy"}

Event(ev, m, e, f) == [ev |-> ev, m |-> m, e |-> e, f |-> f]

\* new WebModules.Module(contextPath, middleware, {routes: ...}) followed by
\* module.register(): modulesDescriptions.push({initialized: false, module}).
\* nfilters numbers the module's filters in registration order; inits
\* counts the init() calls; atInit is the number of filters the module had
\* when init() ran.
register(ctx, routes) ==
  [ctx |-> ctx, initialized |-> FALSE, routes |-> routes,
   endpoints |-> <<>>, filters |-> [o \in Orders |-> <<>>], nfilters |-> 0,
   inits |-> 0, atInit |-> 0]

\* registerEndpoint(path, endpointDescription): endpoints.push(...)
registerEndpoint(mod, path, via) ==
  [mod EXCEPT !.endpoints = Append(@, [path |-> path, via |-> via])]

\* Module.filter(filter, order): index = (order !== undefined) ? order : 0
filter(mod, order) ==
  LET index == IF order # Undefined THEN order.n ELSE 0
  IN  [mod EXCEPT !.filters[index] = Append(@, mod.nfilters + 1),
                  !.nfilters = @ + 1]

\* Module.init(): registers every route of Config.routes as an endpoint.
RECURSIVE initRoutes(_, _)
initRoutes_First(mod, routes) ==
  [mod EXCEPT !.endpoints =
     [i \in 1 .. Len(routes) |-> [path |-> routes[i], via |-> "config"]]
       \o @]
initRoutes(mod, routes) ==
  IF routes = <<>> THEN mod
  ELSE initRoutes(registerEndpoint(mod, Head(routes), "config"), Tail(routes))

init(mod) ==
  [initRoutes(mod, mod.routes) EXCEPT !.inits = @ + 1,
                                      !.atInit = mod.nfilters]

\* processNextModule's "if (!moduleDescription.initialized) { module.init();
\* moduleDescription.initialized = true; }"
lazyInit_Forget(mod) == IF mod.initialized THEN mod ELSE init(mod)
lazyInit(mod) ==
  IF mod.initialized THEN mod ELSE [init(mod) EXCEPT !.initialized = TRUE]

\* processFilters: filterList is the concatenation of filters[order] in
\* for-in order, which for integer keys is ascending.
RECURSIVE concatFilters(_, _)
concatFilters(filters, o) ==
  IF o > MaxOrder THEN <<>>
  ELSE filters[o] \o concatFilters(filters, o + 1)

\* filterList.shift(): undefined on the empty list.
shift(list) == IF list = <<>> THEN NoFilter ELSE Head(list)
shifted(list) == IF list = <<>> THEN <<>> ELSE Tail(list)

\* ExpressMiddleware.validate(req):
\*   path = pathname.replace(modulePath, "") || "/"
validate(endpoint, pathname, modulePath) ==
  LET stripped == replace(pathname, modulePath)
      path     == IF stripped = <<>> THEN <<"/">> ELSE stripped
  IN  patternTest(endpoint.path, path)

\* Endpoints and filters registered so far, over all modules.
RECURSIVE countEndpoints(_)
countEndpoints(mods) ==
  IF mods = <<>> THEN 0
  ELSE Len(Head(mods).endpoints) +
       (IF Head(mods).initialized THEN 0 ELSE Len(Head(mods).routes)) +
       countEndpoints(Tail(mods))

RECURSIVE countFilters(_)
countFilters(mods) ==
  IF mods = <<>> THEN 0 ELSE Head(mods).nfilters + countFilters(Tail(mods))

\* req, log, res and returned describe the request processed last, and
\* mi, ei, filt and filterList are locals of its call chain, which has
\* returned.  A configuration call is not part of it: all are dropped.
forgetRequest ==
  /\ req' = [pathname |-> <<>>]
  /\ log' = <<>>
  /\ res' = <<>>
  /\ returned' = Undefined
  /\ mi' = 1
  /\ ei' = 1
  /\ filt' = NoFilter
  /\ filterList' = <<>>

RegisterModule(ctx, routes) ==
  /\ pc = "idle"
  /\ Len(modules) < MaxModules
  /\ countEndpoints(modules) + Len(routes) <= MaxEndpoints
  /\ modules' = Append(modules, register(ctx, routes))
  /\ forgetRequest
  /\ UNCHANGED <<pc, inflight>>
  /\ UNCHANGED <<modelVars, bindVars, ctlVars, viewVars, deployVars>>

\* Module.route(path, endpointDescription)
Route(m, path) ==
  /\ pc = "idle"
  /\ countEndpoints(modules) < MaxEndpoints
  /\ modules' = [modules EXCEPT ![m] = registerEndpoint(@, path, "route")]
  /\ forgetRequest
  /\ UNCHANGED <<pc, inflight>>
  /\ UNCHANGED <<modelVars, bindVars, ctlVars, viewVars, deployVars>>

\* Module.filter(filter, order)
Filter(m, order) ==
  /\ pc = "idle"
  /\ countFilters(modules) < MaxFilters
  /\ modules' = [modules EXCEPT ![m] = filter(@, order)]
  /\ forgetRequest
  /\ UNCHANGED <<pc, inflight>>
  /\ UNCHANGED <<modelVars, bindVars, ctlVars, viewVars, deployVars>>

\* app.use(function (req, res, next) { ... processNextModule(
\*   modulesDescriptions[index]) }) up to the first processNextModule call.
Request(pathname) ==
  /\ pc = "idle"
  /\ req' = [pathname |-> pathname]
  /\ mi' = 1
  /\ pc' = "module"
  /\ log' = <<>>
  /\ res' = <<>>
  /\ returned' = Undefined
  /\ ei' = 1
  /\ filt' = NoFilter
  /\ filterList' = <<>>
  /\ UNCHANGED <<modules, inflight>>
  /\ UNCHANGED <<modelVars, bindVars, ctlVars, viewVars, deployVars>>

\* processNextModule(moduleDescription), up to and including the call of
\* module.dispatch(), whose first step is processNextEndpoint(endpoints[0]).
ProcessNextModule ==
  /\ pc = "module"
  /\ IF mi > Len(modules)
       THEN \* no module is left: next() continues with Express
            /\ pc' = "idle"
            /\ log' = Append(log, Event("express_next", 0, 0, 0))
            /\ UNCHANGED <<modules, mi, ei>>
     ELSE IF indexOf(req.pathname, modules[mi].ctx) = 0
       THEN /\ modules' = [modules EXCEPT ![mi] = lazyInit(@)]
            /\ log' = log \o
                 (IF modules'[mi].inits # modules[mi].inits
                    THEN <<Event("init", mi, 0, 0)>> ELSE <<>>) \o
                 <<Event("dispatch", mi, 0, 0)>>
            /\ ei' = 1
            /\ pc' = "endpoint"
            /\ UNCHANGED mi
     ELSE /\ mi' = mi + 1
          /\ UNCHANGED <<modules, pc, ei, log>>
  /\ UNCHANGED <<req, filt, filterList, res, returned, inflight>>
  /\ UNCHANGED <<modelVars, bindVars, ctlVars, viewVars, deployVars>>

\* The continuation Module.dispatch hands to middleware.dispatch():
\*   if (info.error) throw info.error; if (info.cancel) return;
\*   processNextEndpoint(endpoints[++index])
moduleNext_IgnoreCancel(info) ==
  IF info = "error" THEN "idle" ELSE "endpoint"
moduleNext(info) ==
  IF info = "error" THEN "idle"
  ELSE IF info = "cancel" THEN "idle"
  ELSE "endpoint"

\* Module.dispatch's processNextEndpoint(endpoint) with the call of
\* middleware.dispatch(): validate(), then processFilters() up to the first
\* processFilter call.
ProcessNextEndpoint ==
  /\ pc = "endpoint"
  /\ LET mod == modules[mi]
     IN  IF ei > Len(mod.endpoints)
           THEN \* return next(): the module's continuation
                /\ log' = Append(log, Event("continue", mi, 0, 0))
                /\ mi' = mi + 1
                /\ pc' = "module"
                /\ UNCHANGED <<ei, filt, filterList>>
         ELSE IF ~ validate(mod.endpoints[ei], req.pathname, mod.ctx)
           THEN \* return next(): processNextEndpoint(endpoints[++index])
                /\ log' = Append(log, Event("skip", mi, ei, 0))
                /\ ei' = ei + 1
                /\ pc' = moduleNext("none")
                /\ UNCHANGED <<mi, filt, filterList>>
         ELSE LET list == concatFilters(mod.filters, 0)
              IN  /\ log' = Append(log, Event("valid", mi, ei, 0))
                  /\ filt' = shift(list)
                  /\ filterList' = shifted(list)
                  /\ pc' = "filter"
                  /\ UNCHANGED <<mi, ei>>
  /\ UNCHANGED <<modules, req, res, returned, inflight>>
  /\ UNCHANGED <<modelVars, bindVars, ctlVars, viewVars, deployVars>>

\* catch (cause): the value a throwing filter threw.
thrown(beh) ==
  IF beh = "throw" THEN Obj([n \in {"message"} |-> 1]) ELSE Num(0)

\* The callback RequestHandler.dispatch hands to processFilters:
\*   if (error) next({error: error}); if (cancel) { next({cancel: true});
\*   return; } this.handle(req, res, next)
\* next({error}) throws, which ends the callback.
dispatchCallback(cancel, error) ==
  IF Truthy(error) THEN moduleNext("error")
  ELSE IF cancel THEN moduleNext("cancel")
  ELSE "handle"

\* Whether the callback ends by the exception Module.dispatch's
\* continuation throws: "if (info && info.error) throw info.error".
propagates(cancel, error) == Truthy(error)

\* Where the chain goes after a filter's execute(), by what the filter did
\* with its chain:
\*   next   -> processFilter(<the filter shifted when the chain was built>)
\*   stop   -> callback(true)
\*   return -> nothing is called
\*   throw  -> callback(true, cause)
afterFilter_ReturnContinues(beh) ==
  CASE beh \in {"next", "return"} -> "filter"
    [] beh = "stop"   -> dispatchCallback(TRUE, Undefined)
    [] OTHER          -> dispatchCallback(TRUE, thrown(beh))
afterFilter(beh) ==
  CASE beh = "next"   -> "filter"
    [] beh = "return" -> "idle"
    [] beh = "stop"   -> dispatchCallback(TRUE, Undefined)
    [] OTHER          -> dispatchCallback(TRUE, thrown(beh))

\* The filters that called chain.next() are still executing when a later
\* filter throws.  The exception Module.dispatch's continuation throws
\* leaves through each of their execute() calls, innermost first, into the
\* catch of its processFilter, which calls callback(true, cause) again: the
\* continuation of that filter's dispatch throws the error once more.
unwind(lg) ==
  LET frames == SelectSeq(lg, LAMBDA x : x.ev = "next")
  IN  [i \in 1 .. Len(frames) |->
         Event("rethrow", frames[Len(frames) + 1 - i].m,
               frames[Len(frames) + 1 - i].e, frames[Len(frames) + 1 - i].f)]

\* processFilter(filter)
ProcessFilter ==
  /\ pc = "filter"
  /\ IF filt = NoFilter
       THEN \* callback(false): this.handle(req, res, next)
            /\ pc' = dispatchCallback(FALSE, Undefined)
            /\ UNCHANGED <<ei, filt, filterList, log>>
     ELSE \E beh \in Behaviours :
            /\ log' = log \o <<Event("execute", mi, ei, filt)>> \o
                 (IF beh = "return" THEN <<>>
                  ELSE <<Event(beh, mi, ei, filt)>>) \o
                 (IF beh \in {"throw", "throwFalsy"}
                     /\ propagates(TRUE, thrown(beh))
                    THEN <<Event("rethrow", mi, ei, filt)>> \o unwind(log)
                    ELSE <<>>)
            /\ filt' = shift(filterList)
            /\ filterList' = shifted(filterList)
            /\ pc' = afterFilter(beh)
            /\ ei' = IF pc' = "endpoint" THEN ei + 1 ELSE ei
  /\ UNCHANGED <<modules, req, mi, res, returned, inflight>>
  /\ UNCHANGED <<modelVars, bindVars, ctlVars, viewVars, deployVars>>

MaxInFlight == 2     \* deferred models waiting for resume() at a time
MaxResumes  == 2     \* resume() calls on one deferred model
\* The values the unattended task of a command gives to model.data.
DataValues  == {Obj([n \in {"a"} |-> v]) : v \in 1 .. 2}

\* endpoint.handler is application code.  What it is and does is an input
\* of handle():
\*   "none"   no handler: the view named by the request is rendered
\*   "pass"   a controller whose canHandle() returns false
\*   "handle" a command class or a controller whose canHandle() is true
HandlerKinds == {"none", "pass", "handle"}

\* What the command's execute() does: returns a plain value, a Model, a
\* deferred Model, or new Redirect(target, status).
ImmediateReturns == {[t |-> "value"], [t |-> "model"],
                     [t |-> "redirect", status |-> Undefined],
                     [t |-> "redirect", status |-> Num(301)]}
DeferredReturns == {[t |-> "deferred"]}

executeResult(ret) ==
  CASE ret.t = "value"    -> Obj([n \in {"a"} |-> 1])
    [] ret.t = "model"    -> Model(1, Obj([n \in {"a"} |-> 1]))
    [] ret.t = "deferred" -> defer(Model(1, Obj([n \in {"a"} |-> 1])))
    [] ret.t = "redirect" ->
         Redirect(Str(<<"/", "b">>), ret.status, Undefined)

\* The view name taken from the request path: "index" when it ends with
\* "/", else what follows the last "/".
RECURSIVE lastSegment(_)
lastSegment(path) ==
  IF path = <<>> \/ path[Len(path)] = "/" THEN <<>>
  ELSE Append(lastSegment(SubSeq(path, 1, Len(path) - 1)), path[Len(path)])

viewFromPath(path) ==
  IF lastSegment(path) = <<>> THEN Str("index") ELSE Str(lastSegment(path))

\* handle(): "if (!modelAndView.viewName) modelAndView.viewName = ..."
defaultViewName(m, path) ==
  IF ~ Truthy(m.viewName) THEN [m EXCEPT !.viewName = viewFromPath(path)]
  ELSE m

\* render(req, res, mav): res.json(data) for an XHR request, else
\* res.render(view, {locals: data}).
render(xhr, m) ==
  [kind |-> IF xhr THEN "json" ELSE "render", status |-> 0,
   view |-> m.viewName, data |-> m.model.data]

\* redirect(req, res, mav): res.redirect(status, target)
redirect(m) ==
  [kind |-> "redirect", status |-> getRedirect(m).status.n,
   view |-> getRedirect(m).path, data |-> Undefined]

\* The end of handle(): what is written to the response before it returns.
respond_RenderToo(xhr, m) ==
  IF getRedirect(m) # Null THEN <<redirect(m), render(xhr, m)>>
  ELSE [i \in 1 .. Len(waitCalls(m.model, 0)) |-> render(xhr, m)]
respond(xhr, m) ==
  IF getRedirect(m) # Null THEN <<redirect(m)>>
  ELSE [i \in 1 .. Len(waitCalls(m.model, 0)) |-> render(xhr, m)]

\* Whether handle() calls its continuation next(): only when the
\* controller cannot handle the request.
callsNext_Always(kind) == TRUE
callsNext(kind) == kind = "pass"

\* A request whose handle() returned while its model is deferred.  The
\* callback handed to wait() is the closure "function () { render(req, res,
\* modelAndView) }": it is named by the request it belongs to (id).  out
\* is what was written to that request's response since; seen is the
\* model's data at each resume() of that model.
waiting(id, xhr, m) ==
  [id |-> id, xhr |-> xhr,
   mav |-> [m EXCEPT !.model = waitModel(m.model, id)],
   out |-> <<>>, seen |-> <<>>]

\* An id no waiting request has.
freeId(fl) ==
  CHOOSE n \in 1 .. MaxInFlight : \A k \in DOMAIN fl : fl[k].id # n

\* ExpressMiddleware.handle(req, res, next), for a command returning one
\* of returns.
Handle(returns) ==
  /\ pc = "handle"
  /\ \E kind \in HandlerKinds, xhr \in BOOLEAN, ret \in returns :
       LET m == IF kind = "none"
                  THEN ModelAndView(viewFromPath(req.pathname), Undefined, 1)
                  ELSE defaultViewName(
                         wrapResult(executeResult(ret), Str(""), 2),
                         req.pathname)
           waits == kind # "pass" /\ getRedirect(m) = Null
                    /\ waitCalls(m.model, 0) = <<>>
       IN  /\ waits => Len(inflight) < MaxInFlight
           /\ kind # "handle" => ret = [t |-> "value"]
           /\ log' = Append(log, Event(kind, mi, ei, 0))
           /\ returned' = IF kind = "handle" THEN ret ELSE returned
           /\ res' = IF kind = "pass" THEN res ELSE res \o respond(xhr, m)
           /\ inflight' = IF waits
                            THEN Append(inflight,
                                   waiting(freeId(inflight), xhr, m))
                            ELSE inflight
           /\ IF callsNext(kind)
                THEN \* next(): processNextEndpoint(endpoints[++index])
                     /\ ei' = ei + 1
                     /\ pc' = moduleNext("none")
                ELSE /\ pc' = "idle"
                     /\ UNCHANGED ei
  /\ UNCHANGED <<modules, req, mi, filt, filterList>>
  /\ UNCHANGED <<modelVars, bindVars, ctlVars, viewVars, deployVars>>

\* The callbacks model.resume() invokes on the model of waiting request i:
\* those of that model's own wait-list ("var callbacks = []" belongs to
\* the Model instance).
resumed_SharedList(fl, i) ==
  IF fl[i].mav.model.deferred
    THEN [k \in DOMAIN fl |-> fl[k].id] ELSE <<>>
resumed(fl, i) == resumeCalls(fl[i].mav.model)

\* What a waiting request's response receives when the callbacks calls are
\* invoked: its own closure renders its own ModelAndView, reading
\* mav.model.data when it is called.
rendered(e, calls) ==
  [k \in 1 .. Cardinality({j \in DOMAIN calls : calls[j] = e.id}) |->
     render(e.xhr, e.mav)]

\* model.resume(), called by the application on the deferred model of
\* waiting request i, between two requests.
Resume(i) ==
  /\ pc = "idle"
  /\ Len(inflight[i].seen) < MaxResumes
  /\ inflight' =
       [k \in DOMAIN inflight |->
          [inflight[k] EXCEPT
             !.out = @ \o rendered(inflight[k], resumed(inflight, i)),
             !.seen = IF k = i THEN Append(@, inflight[i].mav.model.data)
                      ELSE @]]
  /\ UNCHANGED <<modules, pc, req, mi, ei, filt, filterList, log, res,
                 returned>>
  /\ UNCHANGED <<modelVars, bindVars, ctlVars, viewVars, deployVars>>

\* The command's unattended task changes its model's data before it
\* resumes: model.data.message += " (unattended!)".
SetData(i, v) ==
  /\ pc = "idle"
  /\ inflight[i].mav.model.data # v
  /\ inflight' = [inflight EXCEPT ![i].mav.model.data = v]
  /\ UNCHANGED <<modules, pc, req, mi, ei, filt, filterList, log, res,
                 returned>>
  /\ UNCHANGED <<modelVars, bindVars, ctlVars, viewVars, deployVars>>

\* The response of a resumed request is complete: nothing refers to its
\* model any more.
Release(i) ==
  /\ pc = "idle"
  /\ inflight[i].seen # <<>>
  /\ inflight' = SubSeq(inflight, 1, i - 1) \o
                 SubSeq(inflight, i + 1, Len(inflight))
  /\ UNCHANGED <<modules, pc, req, mi, ei, filt, filterList, log, res,
                 returned>>
  /\ UNCHANGED <<modelVars, bindVars, ctlVars, viewVars, deployVars>>

IdleMw ==
  /\ modules = <<>>
  /\ pc = "idle"
  /\ req = [pathname |-> <<>>]
  /\ mi = 1
  /\ ei = 1
  /\ filt = NoFilter
  /\ filterList = <<>>
  /\ log = <<>>
  /\ res = <<>>
  /\ returned = Undefined
  /\ inflight = <<>>

InitMw == IdleMw

Next ==
  \/ \E ctx \in ContextPaths, routes \in ConfigRoutes :
       RegisterModule(ctx, routes)
  \/ \E m \in DOMAIN modules, path \in RoutePaths : Route(m, path)
  \/ \E m \in DOMAIN modules,
        order \in {Undefined} \cup {Num(o) : o \in Orders} : Filter(m, order)
  \/ \E pathname \in Pathnames : Request(pathname)
  \/ ProcessNextModule
  \/ ProcessNextEndpoint
  \/ ProcessFilter
  \/ Handle(ImmediateReturns)

\* One module with one endpoint, for the requests whose command defers.
InitDeferred ==
  /\ modules = << registerEndpoint(register(<<"/", "a">>, <<>>),
                                   <<"/", "x">>, "route") >>
  /\ pc = "idle"
  /\ req = [pathname |-> <<>>]
  /\ mi = 1
  /\ ei = 1
  /\ filt = NoFilter
  /\ filterList = <<>>
  /\ log = <<>>
  /\ res = <<>>
  /\ returned = Undefined
  /\ inflight = <<>>

NextDeferred ==
  \/ \E pathname \in Pathnames : Request(pathname)
  \/ ProcessNextModule
  \/ ProcessNextEndpoint
  \/ ProcessFilter
  \/ Handle(ImmediateReturns \cup DeferredReturns)
  \/ \E i \in DOMAIN inflight : Resume(i)
  \/ \E i \in DOMAIN inflight, v \in DataValues : SetData(i, v)
  \/ \E i \in DOMAIN inflight : Release(i)

----------------------------------------------------------------------------
(* View lookup: MultiPathViewResolver.lookup and the lookup and render of  *)
(* ExpressMiddleware.  File and view names are strings.                     *)

MaxViewPaths == 2                     \* view paths added to one resolver
ViewDirs == {"/v1", "/v2"}            \* directories given as view paths
Exts     == {".jade", ".ejs"}         \* extensions of template engines
Views    == {"index", "index.jade"}   \* view names handed to render

\* path.join(dir, name)
join(dir, name) ==
  IF SubSeq(name, 1, 1) = "/" THEN dir \o name ELSE dir \o "/" \o name

\* The template files that may exist in the view directories.
ViewFiles == {join(d, "index" \o e) : d \in ViewDirs, e \in Exts}

\* app.engines with none, one or two engines registered.
EngineLists ==
  {<<>>} \cup {<<e>> : e \in Exts}
         \cup ({<<a, b>> : a \in Exts, b \in Exts} \ {<<e, e>> : e \in Exts})

\* fs.existsSync(filename)
exists(filename) == filename \in files

\* s.substr(start) for a negative start.
substr(s, start) ==
  LET from == IF Len(s) + start < 0 THEN 0 ELSE Len(s) + start
  IN  SubSeq(s, from + 1, Len(s))

\* MultiPathViewResolver.lookup(view): the first existing file among the
\* view paths from index i on, else null.
RECURSIVE resolverLookupFrom(_, _, _, _)
resolverLookupFrom(theBaseDir, paths, view, i) ==
  IF i > Len(paths) THEN Null
  ELSE LET filename == IF Truthy(theBaseDir)
                       THEN join(join(theBaseDir.s, paths[i]), view)
                       ELSE join(paths[i], view)
       IN  IF exists(filename) THEN Str(filename)
           ELSE resolverLookupFrom(theBaseDir, paths, view, i + 1)

\* The name looked up for an engine: the view itself when it ends with the
\* engine's extension, else the view with the extension appended.
fileName(view, engine) ==
  IF substr(view, 0 - Len(engine)) = engine THEN view ELSE view \o engine

\* ExpressMiddleware.lookup(req, view): for each engine in turn, the file
\* the module's resolver (made without base directory) finds.
RECURSIVE lookupFrom(_, _, _, _)
lookupFrom(engs, paths, view, k) ==
  IF k > Len(engs) THEN Null
  ELSE LET resolvedView ==
             resolverLookupFrom(Undefined, paths,
                                fileName(view, engs[k]), 1)
       IN  IF Truthy(resolvedView) THEN resolvedView
           ELSE lookupFrom(engs, paths, view, k + 1)

lookup_PathsFirst(engs, paths, view) ==
  LET hits == {i \in DOMAIN paths :
                 Truthy(lookupFrom(engs, <<paths[i]>>, view, 1))}
  IN  IF hits = {} THEN Null
      ELSE lookupFrom(engs, <<paths[CHOOSE i \in hits :
                                      \A j \in hits : i <= j]>>, view, 1)
lookup(engs, paths, view) == lookupFrom(engs, paths, view, 1)

\* render(req, res, mav) for a ModelAndView with a model:
\* res.json(data) for an XHR request, else
\* res.render(lookup(req, viewName) || viewName, ...).
renderView(xhr, viewName) ==
  IF xhr THEN [kind |-> "json"]
  ELSE [kind |-> "render",
        view |-> Or(lookup(engines, viewPaths, viewName), Str(viewName))]

\* Config.viewResolver.addViewPath(viewPath), as Module.init() does for
\* each of Config.viewPaths.
AddViewPath(viewPath) ==
  /\ Len(viewPaths) < MaxViewPaths
  /\ viewPaths' = Append(viewPaths, viewPath)
  /\ viewOp' = [op |-> "addViewPath"]
  /\ UNCHANGED <<engines, files>>
  /\ UNCHANGED <<modelVars, bindVars, ctlVars, mwVars, deployVars>>

\* A request whose handler gave a ModelAndView with view viewName.
RenderView(viewName, xhr) ==
  /\ viewOp' = [op |-> "render", view |-> viewName, xhr |-> xhr,
                out |-> renderView(xhr, viewName)]
  /\ UNCHANGED <<engines, files, viewPaths>>
  /\ UNCHANGED <<modelVars, bindVars, ctlVars, mwVars, deployVars>>

IdleView ==
  /\ engines = <<>>
  /\ files = {}
  /\ viewPaths = <<>>
  /\ viewOp = [op |-> "new"]

\* Any engines registered in the application, any files on disk, and a
\* resolver without view paths.
InitView ==
  /\ engines \in EngineLists
  /\ files \in SUBSET ViewFiles
  /\ viewPaths = <<>>
  /\ viewOp = [op |-> "new"]

NextView ==
  \/ \E viewPath \in ViewDirs : AddViewPath(viewPath)
  \/ \E viewName \in Views, xhr \in BOOLEAN : RenderView(viewName, xhr)

----------------------------------------------------------------------------
(* WebModules.DeploymentAgent                                              *)

MaxFiles == 2                       \* entries of the root directory
RootDir  == "/modules"              \* the agent's rootDir
FileNames == {"a", "b", "c"}        \* names of entries of the root directory
Causes   == {Str("E1"), Num(0)}     \* values a module throws while loading
Fn       == [t |-> "function"]      \* a callback

\* An entry of the root directory: a plain file, or a directory whose
\* require() returns (load undefined) or throws load.
Entries ==
  {[name |-> n, dir |-> FALSE, load |-> Undefined] : n \in FileNames}
    \cup {[name |-> n, dir |-> TRUE, load |-> l] :
            n \in FileNames, l \in {Undefined} \cup Causes}

\* The listings of a directory: entries with different names.
Listings ==
  {fs \in UNION {[1 .. n -> Entries] : n \in 0 .. MaxFiles} :
     \A i, j \in DOMAIN fs : fs[i].name = fs[j].name => i = j}

\* The options an agent is constructed with.
AgentOptions ==
  {Undefined, Null, Obj([error |-> Undefined]), Obj([error |-> Fn])}

\* The paths of the requests made to the application.
DeployPaths == {"/a/x", "/a", "/b/", "/c/x"}

\* The callback deploy() hands to listModules: require(modulePath), and on
\* an exception app.all("/" + moduleName + "/*", handler).
deployModule(st, modulePath, moduleName, load) ==
  LET st1 == [st EXCEPT !.required = Append(@, modulePath)]
  IN  IF load = Undefined THEN st1
      ELSE [st1 EXCEPT !.routes =
              Append(@, [path |-> "/" \o moduleName \o "/*",
                         modulePath |-> modulePath, cause |-> load])]

\* listModules' loop over the files from index i on.
RECURSIVE listModules(_, _, _)
RECURSIVE listModules_StopAtFailure(_, _, _)
listModules_StopAtFailure(fs, i, st) ==
  IF i > Len(fs) THEN st
  ELSE LET modulePath == join(RootDir, fs[i].name)
           st1 == IF fs[i].dir
                  THEN deployModule(st, modulePath, fs[i].name, fs[i].load)
                  ELSE st
       IN  IF fs[i].dir /\ fs[i].load # Undefined THEN st1
           ELSE listModules_StopAtFailure(fs, i + 1, st1)
listModules(fs, i, st) ==
  IF i > Len(fs) THEN st
  ELSE LET modulePath == join(RootDir, fs[i].name)
       IN  listModules(fs, i + 1,
             IF fs[i].dir
             THEN deployModule(st, modulePath, fs[i].name, fs[i].load)
             ELSE st)

\* Whether a route registered as "/<moduleName>/*" matches a request path.
routeMatches(routePath, path) ==
  LET prefix == SubSeq(routePath, 1, Len(routePath) - 1)
  IN  /\ Len(path) >= Len(prefix)
      /\ SubSeq(path, 1, Len(prefix)) = prefix

\* options && options.error
errorOption(options) ==
  IF Truthy(options) THEN options.o.error ELSE options

\* The handler of a failed module's route: what it calls options.error
\* with, and what it throws.
routeHandler(options, route, request, response) ==
  IF Truthy(errorOption(options))
  THEN [called |-> <<route.modulePath, route.cause, request, response>>,
        thrown |-> <<>>]
  ELSE [called |-> <<>>, thrown |-> <<route.cause>>]

\* agent.deploy(): listModules() hands its callback to fs.readdir and
\* returns; nothing is required or registered yet.
Deploy ==
  /\ agentPc = "new"
  /\ agentPc' = "listing"
  /\ deployOp' = [op |-> "deploy", thrown |-> <<>>]
  /\ UNCHANGED <<rootFiles, agentOptions, required, appRoutes>>
  /\ UNCHANGED <<modelVars, bindVars, ctlVars, mwVars, viewVars>>

\* The callback of fs.readdir, on a later tick: throws the error of
\* readdir, else loads every directory of the listing.
ReaddirCallback ==
  /\ agentPc = "listing"
  /\ agentPc' = "listed"
  /\ IF rootFiles.err
     THEN /\ deployOp' = [op |-> "callback", thrown |-> <<Str("readdir")>>]
          /\ UNCHANGED <<required, appRoutes>>
     ELSE LET st == listModules(rootFiles.files, 1,
                                [required |-> required, routes |-> appRoutes])
          IN  /\ required' = st.required
              /\ appRoutes' = st.routes
              /\ deployOp' = [op |-> "callback", thrown |-> <<>>]
  /\ UNCHANGED <<rootFiles, agentOptions>>
  /\ UNCHANGED <<modelVars, bindVars, ctlVars, mwVars, viewVars>>

\* A request to the application, at any time: the handler of the first
\* registered route that matches its path is invoked; before the callback
\* of fs.readdir has run no route is registered.
DeployRequest(path) ==
  /\ LET hits == {i \in DOMAIN appRoutes :
                   routeMatches(appRoutes[i].path, path)}
     IN  IF hits = {}
         THEN deployOp' = [op |-> "request", path |-> path,
                           matched |-> FALSE, called |-> <<>>,
                           thrown |-> <<>>]
         ELSE LET i == CHOOSE i \in hits : \A j \in hits : i <= j
                  out == routeHandler(agentOptions, appRoutes[i],
                                      [path |-> path], "res")
              IN  deployOp' = [op |-> "request", path |-> path,
                               matched |-> TRUE, called |-> out.called,
                               thrown |-> out.thrown]
  /\ UNCHANGED <<rootFiles, agentOptions, required, appRoutes, agentPc>>
  /\ UNCHANGED <<modelVars, bindVars, ctlVars, mwVars, viewVars>>

IdleDeploy ==
  /\ rootFiles = [err |-> FALSE, files |-> <<>>]
  /\ agentOptions = Undefined
  /\ required = <<>>
  /\ appRoutes = <<>>
  /\ deployOp = [op |-> "new"]
  /\ agentPc = "new"

\* An agent made for any root directory with any options.
InitDeploy ==
  /\ rootFiles \in {[err |-> FALSE, files |-> fs] : fs \in Listings}
                   \cup {[err |-> TRUE, files |-> <<>>]}
  /\ agentOptions \in AgentOptions
  /\ required = <<>>
  /\ appRoutes = <<>>
  /\ deployOp = [op |-> "new"]
  /\ agentPc = "new"

NextDeploy ==
  \/ Deploy
  \/ ReaddirCallback
  \/ \E path \in DeployPaths : DeployRequest(path)

----------------------------------------------------------------------------
(* Specifications                                                          *)

IdleModel == InitModel

\* The Model wait-list on its own.
InitSpecModel == InitModel /\ IdleBind /\ IdleCtl
    /\ IdleMw /\ IdleView /\ IdleDeploy
SpecModel == InitSpecModel /\ [][NextModel]_vars

\* ObjectDataBinder.bind on its own.
InitSpecBind == IdleModel /\ InitBind /\ IdleCtl
    /\ IdleMw /\ IdleView /\ IdleDeploy
SpecBind == InitSpecBind /\ [][NextBind]_vars

\* The controllers on their own.
InitSpecCtl == IdleModel /\ IdleBind /\ IdleCtl
    /\ IdleMw /\ IdleView /\ IdleDeploy
SpecCtl == InitSpecCtl /\ [][NextCtl]_vars

\* One CommandController, whatever options it was constructed with.
InitSpecOptions == IdleModel /\ IdleBind /\ InitOptions
    /\ IdleMw /\ IdleView /\ IdleDeploy
SpecOptions == InitSpecOptions /\ [][NextOptions]_vars

\* The view lookup of one module's renderings.
InitSpecView == IdleModel /\ IdleBind /\ IdleCtl
    /\ IdleMw /\ InitView /\ IdleDeploy
SpecView == InitSpecView /\ [][NextView]_vars

\* The deployment agent and the requests to the modules it failed to load.
InitSpecDeploy == IdleModel /\ IdleBind /\ IdleCtl /\ IdleMw /\ IdleView
    /\ InitDeploy
SpecDeploy == InitSpecDeploy /\ [][NextDeploy]_vars

\* The Express middleware: modules, filters, endpoints and requests.
Init == IdleModel /\ IdleBind /\ IdleCtl
    /\ InitMw /\ IdleView /\ IdleDeploy
Spec == Init /\ [][Next]_vars

\* The Express middleware with commands that defer their model.
InitSpecDeferred == IdleModel /\ IdleBind /\ IdleCtl
    /\ InitDeferred /\ IdleView /\ IdleDeploy
SpecDeferred == InitSpecDeferred /\ [][NextDeferred]_vars

----------------------------------------------------------------------------
(* Properties                                                              *)

Range(seq) == {seq[i] : i \in DOMAIN seq}

\* C1: handle() is invoked for an endpoint only after every filter of the
\* module was executed and called chain.next(); once a filter has returned
\* without calling chain.next(), handle() is not invoked for that dispatch.
C1_FiltersBeforeHandle ==
  /\ \A k \in DOMAIN log :
       log[k].ev \in HandlerKinds =>
         \A f \in Range(concatFilters(modules[log[k].m].filters, 0)) :
           \E i \in 1 .. k - 1 :
             /\ log[i] = Event("execute", log[k].m, log[k].e, f)
             /\ log[i + 1] = Event("next", log[k].m, log[k].e, f)
             /\ i + 1 < k
  /\ \A i \in DOMAIN log :
       (/\ log[i].ev = "execute"
        /\ \/ i = Len(log)
           \/ log[i + 1] # Event("next", log[i].m, log[i].e, log[i].f))
       => (/\ pc # "handle"
           /\ \A k \in DOMAIN log :
                ~ (/\ log[k].ev \in HandlerKinds
                   /\ log[k].m = log[i].m
                   /\ log[k].e = log[i].e))

\* A controller handled a request after both filters of its module ran.
C1_Witness ==
  \E k \in DOMAIN log :
    /\ log[k].ev = "handle"
    /\ Len(concatFilters(modules[log[k].m].filters, 0)) = 2

\* C2 as amended: init() runs at most once per module; it runs in the
\* first request that processNextModule offers to the module (the pathname
\* begins with the context path and every module registered before it
\* passed the request on), right before Module.dispatch; a module is never
\* dispatched uninitialized, and never initialized by a request whose
\* pathname does not begin with its context path.
C2_InitOnceWhenOffered ==
  \A m \in DOMAIN modules :
    /\ modules[m].inits <= 1
    /\ modules[m].initialized <=> modules[m].inits = 1
    /\ \A k \in DOMAIN log :
         /\ log[k] = Event("dispatch", m, 0, 0) =>
              /\ modules[m].inits = 1
              /\ indexOf(req.pathname, modules[m].ctx) = 0
         /\ log[k] = Event("init", m, 0, 0) =>
              /\ k < Len(log)
              /\ log[k + 1] = Event("dispatch", m, 0, 0)
              /\ indexOf(req.pathname, modules[m].ctx) = 0

\* A later request is dispatched to an initialized module without init().
C2_Witness ==
  \E m \in DOMAIN modules :
    /\ modules[m].inits = 1
    /\ Event("dispatch", m, 0, 0) \in Range(log)
    /\ Event("init", m, 0, 0) \notin Range(log)

\* C2 as stated: once a request whose pathname begins with a module's
\* context path has been processed, that module's init() has run exactly
\* once.
C2_InitOnFirstMatchingRequest ==
  (pc = "idle" /\ req.pathname # <<>>) =>
    \A m \in DOMAIN modules :
      indexOf(req.pathname, modules[m].ctx) = 0 => modules[m].inits = 1

\* C3: on a deferred Model, wait(callback) invokes nothing, and resume()
\* invokes every callback handed to wait() so far, in the order they were
\* handed over.
C3_DeferredWaitsForResume ==
  /\ (modelOp.op = "wait" /\ modelOp.was) => modelCalls = <<>>
  /\ (modelOp.op = "resume" /\ modelOp.was) => modelCalls = modelWaited

\* resume() on a deferred Model with two different callbacks waiting.
C3_Witness ==
  /\ modelOp.op = "resume"
  /\ modelOp.was
  /\ Len(modelCalls) >= 2
  /\ modelCalls[1] # modelCalls[2]

\* C4: on a Model that was never deferred, wait(callback) invokes the
\* callback before it returns.
C4_WaitCallsAtOnce ==
  (modelOp.op = "wait" /\ ~ modelOp.was) =>
    /\ modelCalls # <<>>
    /\ modelCalls[Len(modelCalls)] = modelOp.cb

\* wait() on a Model that is not deferred and already has a callback.
C4_Witness ==
  /\ modelOp.op = "wait"
  /\ ~ modelOp.was
  /\ Len(model.callbacks) >= 2

\* The ModelAndView of the last CommandController.handle() carries a Model
\* constructed by handle() itself.
newModel(m) ==
  /\ m.t = "Model"
  /\ m.id = modelCount
  /\ ~ m.deferred
  /\ m.callbacks = <<>>

\* C5 as amended: handle() returns a ModelAndView whose model is the Model
\* execute() returned, with no redirect; or whose redirect is the Redirect
\* execute() returned; or, for any other value, whose model is a new Model
\* whose data is that value when it is truthy and an empty object when it
\* is falsy (undefined, null, 0, "", false), with no redirect.
C5_HandleWrapsResult ==
  ctlOp = "handle" =>
    CASE cmdResult.t = "Model" ->
           handled.model = cmdResult /\ getRedirect(handled) = Null
      [] cmdResult.t = "Redirect" ->
           getRedirect(handled) = cmdResult
      [] OTHER ->
           /\ newModel(handled.model)
           /\ handled.model.data =
                (IF Truthy(cmdResult) THEN cmdResult ELSE EmptyObject)
           /\ getRedirect(handled) = Null

\* execute() returned 0 and the model's data is the empty object.
C5_Witness ==
  /\ ctlOp = "handle"
  /\ cmdResult = Num(0)
  /\ handled.model.data = EmptyObject

\* C5 as stated: for any value that is neither a Model nor a Redirect the
\* model's data is the returned value.
C5_DataIsReturnedValue ==
  ctlOp = "handle" =>
    CASE cmdResult.t = "Model" ->
           handled.model = cmdResult /\ getRedirect(handled) = Null
      [] cmdResult.t = "Redirect" ->
           getRedirect(handled) = cmdResult
      [] OTHER ->
           /\ newModel(handled.model)
           /\ handled.model.data = cmdResult
           /\ getRedirect(handled) = Null

\* C6: a handle() call of either controller builds one command, applies
\* every binding to it, then executes it once, with everything bound; no
\* command is executed by two handle() calls.
C6_CommandLifeCycle ==
  /\ ctlOp \in {"handle", "message"} =>
       LET n == Len(cmdTrace)
       IN  /\ n >= 2
           /\ cmdTrace[1].ev = "create"
           /\ cmdTrace[n].ev = "execute"
           /\ \A i \in 2 .. n - 1 : cmdTrace[i].ev = "bind"
           /\ \A i \in 1 .. n : cmdTrace[i].c = cmdTrace[1].c
           /\ cmdTrace[n].props = cmdTrace[n - 1].props
           /\ cmdExecuted[Len(cmdExecuted)] = cmdTrace[1].c
  /\ \A i, j \in DOMAIN cmdExecuted : i # j => cmdExecuted[i] # cmdExecuted[j]

\* A second handle() call that bound three sources before execute().
C6_Witness ==
  /\ ctlOp = "handle"
  /\ Len(cmdTrace) = 5
  /\ Len(cmdExecuted) >= 2
  /\ cmdTrace[5].props # NewCommand

\* The arguments of the last bind() that are objects naming property n.
naming(n) ==
  {i \in DOMAIN bindArgs : Truthy(bindArgs[i]) /\ n \in DOMAIN bindArgs[i].o}

\* C7: bind(p1..pn) leaves the host's property names unchanged; a host
\* property named in some pi holds the value of the last such pi, every
\* other host property keeps its value.
C7_BindFrame ==
  bindArgs # <<>> =>
    /\ DOMAIN host = DOMAIN hostBefore
    /\ \A n \in DOMAIN host :
         IF naming(n) = {} THEN host[n] = hostBefore[n]
         ELSE LET last == CHOOSE i \in naming(n) : \A j \in naming(n) : j <= i
              IN  host[n] = bindArgs[last].o[n]

\* Two arguments disagree on a host property, and one names a property the
\* host does not have.
C7_Witness ==
  /\ Len(bindArgs) = 2
  /\ \E n \in DOMAIN host :
       /\ naming(n) = {1, 2}
       /\ bindArgs[1].o[n] # bindArgs[2].o[n]
       /\ host[n] # hostBefore[n]
  /\ \E n \in Names \ DOMAIN host : naming(n) # {}

\* The endpoints module m has once it is initialized.
endpointsOf(m) ==
  IF modules[m].initialized THEN modules[m].endpoints
  ELSE initRoutes(modules[m], modules[m].routes).endpoints

matches(m) ==
  /\ indexOf(req.pathname, modules[m].ctx) = 0
  /\ \E e \in DOMAIN endpointsOf(m) :
       validate(endpointsOf(m)[e], req.pathname, modules[m].ctx)

\* C8 as stated: when two registered modules share a context path and each
\* has an endpoint matching the request path, a request the first one
\* handled is handled by the second one too, after the first.
C8_AllSharingModulesHandle ==
  pc = "idle" =>
    \A m1, m2 \in DOMAIN modules :
      (/\ m1 < m2
       /\ modules[m1].ctx = modules[m2].ctx
       /\ matches(m1)
       /\ matches(m2)
       /\ \E k \in DOMAIN log : log[k].ev = "handle" /\ log[k].m = m1)
      => \E k1, k2 \in DOMAIN log :
           /\ k1 < k2
           /\ log[k1].ev = "handle" /\ log[k1].m = m1
           /\ log[k2].ev = "handle" /\ log[k2].m = m2

\* C9: when the command returned a Redirect, the response gets exactly one
\* write, res.redirect with the redirect's status (302 when none was
\* given), and no view is rendered and no JSON is sent.
C9_RedirectOnly ==
  returned.t = "redirect" =>
    /\ Len(res) = 1
    /\ res[1].kind = "redirect"
    /\ res[1].status =
         (IF returned.status = Undefined THEN 302 ELSE returned.status.n)
    /\ \A i \in DOMAIN res : res[i].kind \notin {"render", "json"}

\* A command redirected without giving a status.
C9_Witness ==
  /\ returned.t = "redirect"
  /\ returned.status = Undefined
  /\ res # <<>>

\* C10: a filter's chain.stop() is the last call of the request: no later
\* filter is executed, no controller is invoked, no further endpoint is
\* tried, the module's continuation is not called and no later module is
\* dispatched.
C10_StopEndsRequest ==
  \A k \in DOMAIN log :
    log[k].ev = "stop" => (k = Len(log) /\ pc = "idle")

\* The first of two filters stopped the chain on the first of two
\* endpoints, and a later module shares the context path.
C10_Witness ==
  /\ log # <<>>
  /\ LET last == log[Len(log)]
     IN  /\ last.ev = "stop"
         /\ last.e = 1
         /\ last.f = Head(concatFilters(modules[last.m].filters, 0))
         /\ Len(concatFilters(modules[last.m].filters, 0)) = 2
         /\ Len(modules[last.m].endpoints) = 2
         /\ validate(modules[last.m].endpoints[2], req.pathname,
                     modules[last.m].ctx)
         /\ last.m < Len(modules)
         /\ indexOf(req.pathname, modules[last.m + 1].ctx) = 0

\* C11 as stated: when a filter's execute() throws, handle() is not invoked
\* for that endpoint and the exception propagates out of Module.dispatch.
C11_FilterThrowRethrown ==
  \A k \in DOMAIN log :
    log[k].ev \in {"throw", "throwFalsy"} =>
      /\ k < Len(log)
      /\ log[k + 1] = Event("rethrow", log[k].m, log[k].e, log[k].f)
      /\ \A j \in DOMAIN log :
           ~ (/\ log[j].ev \in HandlerKinds
              /\ log[j].m = log[k].m
              /\ log[j].e = log[k].e)

\* C12: a command that returned a deferred Model leaves the response
\* unwritten when handle() returns; whatever the order of the requests,
\* data changes and resume() calls, each resume() of a request's model
\* writes one rendering to that request's response, with the model's data
\* as it is at that resume(), and nothing else writes to that response.
C12_ResumeRendersOwnRequest ==
  /\ (returned = [t |-> "deferred"] /\ pc = "idle") => res = <<>>
  /\ \A k \in DOMAIN inflight :
       LET e == inflight[k]
       IN  /\ Len(e.out) = Len(e.seen)
           /\ \A j \in DOMAIN e.out :
                e.out[j] = [kind |-> IF e.xhr THEN "json" ELSE "render",
                            status |-> 0, view |-> e.mav.viewName,
                            data |-> e.seen[j]]

\* Two requests wait; the one that came second was resumed after its data
\* changed, the first one is still unanswered.
C12_Witness ==
  /\ Len(inflight) = 2
  /\ inflight[1].out = <<>>
  /\ Len(inflight[2].out) = 1
  /\ inflight[2].out[1].data # inflight[1].mav.model.data
  /\ inflight[2].out[1].data # executeResult([t |-> "deferred"]).data

\* C13: resume() on a Model that is not deferred invokes no callback and
\* leaves the model as it was.
C13_ResumeNotDeferredNoOp ==
  [][(modelOp'.op = "resume" /\ ~ model.deferred)
       => (model' = model /\ modelCalls' = <<>>)]_vars

\* resume() was called on a Model that is not deferred and has callbacks
\* on its wait-list.
C13_Witness ==
  /\ modelOp.op = "resume"
  /\ ~ modelOp.was
  /\ ~ model.deferred
  /\ Len(model.callbacks) >= 2

\* Whether the controller was asked to bind a source: the option when it
\* was given, else what the documentation gives as its default.
asked(name, default) ==
  IF ctlOptions[name] = Undefined THEN default
  ELSE ctlOptions[name] = Bool(TRUE)

\* The sources bound by the last handle(), in the order they were bound.
boundSources ==
  LET binds == SelectSeq(cmdTrace, LAMBDA e : e.ev = "bind")
  IN  [i \in DOMAIN binds |-> binds[i].src]

\* C14: handle() binds the route parameters, the query parameters, the
\* request body and the cookies, in that order, each exactly when its
\* option is true, where an option not given is true for the first three
\* and false for the cookies; when the cookies are not asked for, no
\* property of the executed command holds a cookie's value.
C14_BindsWhatOptionsAsk ==
  ctlOp = "handle" =>
    /\ boundSources =
         (IF asked("bindRouteParams", TRUE) THEN <<"params">> ELSE <<>>) \o
         (IF asked("bindRequestParams", TRUE) THEN <<"query">> ELSE <<>>) \o
         (IF asked("bindRequestBody", TRUE) THEN <<"body">> ELSE <<>>) \o
         (IF asked("bindCookies", FALSE) THEN <<"cookies">> ELSE <<>>)
    /\ ~ asked("bindCookies", FALSE) =>
         \A n \in DOMAIN NewCommand :
           cmdTrace[Len(cmdTrace)].props[n] # 4

\* A controller built without options handled a request that has all four
\* sources, cookies included; the command was executed with the body's
\* value in a and with b untouched.
C14_Witness ==
  /\ ctlOp = "handle"
  /\ ctlOptions = [name \in OptionNames |-> Undefined]
  /\ \A f \in {"params", "query", "body", "cookies"} :
       ctlRequest[f] # Undefined
  /\ cmdTrace[Len(cmdTrace)].props = [n \in {"a", "b"} |->
                                        IF n = "a" THEN 3 ELSE 0]

\* C15 as stated: a filter registered after its module was initialized is
\* not executed for any later request.
C15_LateFilterNotExecuted ==
  \A k \in DOMAIN log :
    log[k].ev = "execute" => log[k].f <= modules[log[k].m].atInit

\* The priority filter f of module m was registered with.
orderOf(m, f) ==
  CHOOSE o \in Orders : f \in Range(modules[m].filters[o])

\* C16 as stated: of two filters registered with different priorities and
\* executed for the same endpoint, the one with the higher priority is
\* executed first.
C16_HigherPriorityFirst ==
  \A i, j \in DOMAIN log :
    (/\ log[i].ev = "execute"
     /\ log[j].ev = "execute"
     /\ log[i].m = log[j].m
     /\ log[i].e = log[j].e
     /\ orderOf(log[i].m, log[i].f) > orderOf(log[j].m, log[j].f))
    => i < j

\* C17 as amended: endpoints are tried in the order of the module's
\* endpoint list; init() appends the constructor's routes to it, after
\* every endpoint registered with route() before init() and in their
\* declared order, and a route() call made after init() appends its
\* endpoint after them.  Hence a route() endpoint has precedence over the
\* constructor's routes exactly when it was registered before init().
C17_RoutesBeforeInitFirst ==
  [][\A m \in DOMAIN modules :
       LET old == modules[m].endpoints
           new == modules'[m].endpoints
       IN  /\ Len(new) >= Len(old)
           /\ SubSeq(new, 1, Len(old)) = old
           /\ IF ~ modules[m].initialized /\ modules'[m].initialized
                THEN /\ new = old \o
                            [i \in DOMAIN modules[m].routes |->
                               [path |-> modules[m].routes[i],
                                via |-> "config"]]
                     /\ \A i \in DOMAIN old : old[i].via = "route"
                ELSE \A i \in Len(old) + 1 .. Len(new) :
                       new[i].via = "route"]_vars

\* An initialized module whose route() endpoint, registered before init(),
\* comes before the endpoint of its constructor's route; the second one
\* matched the request and was handled.
C17_Witness ==
  \E m \in DOMAIN modules :
    /\ modules[m].initialized
    /\ Len(modules[m].endpoints) = 2
    /\ modules[m].endpoints[1].via = "route"
    /\ modules[m].endpoints[2].via = "config"
    /\ Event("skip", m, 1, 0) \in Range(log)
    /\ Event("handle", m, 2, 0) \in Range(log)

\* C17 as stated: in a module's endpoint list every endpoint registered
\* with route() comes before every endpoint of the constructor's routes.
C17_RouteAlwaysFirst ==
  \A m \in DOMAIN modules :
    \A i, j \in DOMAIN modules[m].endpoints :
      (/\ modules[m].endpoints[i].via = "route"
       /\ modules[m].endpoints[j].via = "config") => i < j

\* The places a view's file exists at: <<k, i>> when the name looked up for
\* the k-th engine exists in the i-th view path.
found(view) ==
  {c \in (DOMAIN engines) \X (DOMAIN viewPaths) :
     exists(join(viewPaths[c[2]], fileName(view, engines[c[1]])))}

\* C18 as amended: a rendering that is not for an XHR request renders the
\* file the resolver finds, trying the registered engines in order and,
\* for each engine, the view paths in the order they were added: of the
\* existing files the one of the earliest engine wins, and among the
\* files of that engine the one in the earliest-added view path.  The
\* plain view name is rendered exactly when no view path holds the view
\* under the extension of any registered engine.
C18_FirstEngineThenFirstPath ==
  (viewOp.op = "render" /\ ~ viewOp.xhr) =>
    IF found(viewOp.view) = {}
    THEN viewOp.out.view = Str(viewOp.view)
    ELSE \E c \in found(viewOp.view) :
           /\ \A d \in found(viewOp.view) :
                c[1] < d[1] \/ (c[1] = d[1] /\ c[2] <= d[2])
           /\ viewOp.out.view =
                Str(join(viewPaths[c[2]],
                         fileName(viewOp.view, engines[c[1]])))

\* Two engines and two view paths, each path holding the view for one
\* engine only: the file of the first engine, in the second view path,
\* was rendered.
C18_Witness ==
  /\ viewOp.op = "render"
  /\ ~ viewOp.xhr
  /\ viewOp.view = "index"
  /\ engines = <<".jade", ".ejs">>
  /\ viewPaths = <<"/v1", "/v2">>
  /\ files = {"/v1/index.ejs", "/v2/index.jade"}
  /\ viewOp.out.view = Str("/v2/index.jade")

\* C18 as stated: when some view path holds the view, the file rendered is
\* in the earliest-added such path, and otherwise the plain view name is
\* rendered.
C18_EarliestPathWins ==
  (viewOp.op = "render" /\ ~ viewOp.xhr) =>
    LET holders == {c[2] : c \in found(viewOp.view)}
        first   == CHOOSE i \in holders : \A j \in holders : i <= j
    IN  IF holders = {} THEN viewOp.out.view = Str(viewOp.view)
        ELSE \E k \in DOMAIN engines :
               viewOp.out.view =
                 Str(join(viewPaths[first],
                          fileName(viewOp.view, engines[k])))

\* The directories of the listing, and those of them that fail to load.
directories == SelectSeq(rootFiles.files, LAMBDA e : e.dir)
failed == SelectSeq(directories, LAMBDA e : e.load # Undefined)

\* C19: until the callback of fs.readdir has run nothing is required and
\* no route is registered.  Once it has listed the root directory, require()
\* was attempted on every directory in it, whichever of them threw, and the
\* routes registered are one "/<moduleName>/*" per directory that threw.  A
\* request made from then on under "/<moduleName>/" of a module that threw calls
\* options.error(modulePath, cause, req, res) and throws nothing when that
\* callback is configured, and otherwise calls nothing and throws the
\* exception the module threw while loading.
C19_FailedModuleRoute ==
  IF agentPc # "listed" \/ rootFiles.err
  THEN required = <<>> /\ appRoutes = <<>>
  ELSE
    /\ required = [i \in DOMAIN directories |->
                     RootDir \o "/" \o directories[i].name]
    /\ appRoutes = [i \in DOMAIN failed |->
                      [path |-> "/" \o failed[i].name \o "/*",
                       modulePath |-> RootDir \o "/" \o failed[i].name,
                       cause |-> failed[i].load]]
    /\ deployOp.op = "request" =>
         \A i \in DOMAIN failed :
           LET under == "/" \o failed[i].name \o "/"
           IN  (/\ Len(deployOp.path) >= Len(under)
                /\ SubSeq(deployOp.path, 1, Len(under)) = under) =>
                 IF /\ agentOptions.t = "object"
                    /\ agentOptions.o.error = Fn
                 THEN /\ deployOp.called =
                           <<RootDir \o "/" \o failed[i].name,
                             failed[i].load, [path |-> deployOp.path], "res">>
                      /\ deployOp.thrown = <<>>
                 ELSE /\ deployOp.called = <<>>
                      /\ deployOp.thrown = <<failed[i].load>>

\* Module a threw while loading and module b, listed after it, was loaded
\* all the same; without an error callback a request under /a/ threw the
\* exception of a.
C19_Witness ==
  /\ agentPc = "listed"
  /\ rootFiles.files = <<[name |-> "a", dir |-> TRUE, load |-> Str("E1")],
                         [name |-> "b", dir |-> TRUE, load |-> Undefined]>>
  /\ required = <<"/modules/a", "/modules/b">>
  /\ agentOptions = Obj([error |-> Undefined])
  /\ deployOp.op = "request"
  /\ deployOp.path = "/a/x"
  /\ deployOp.thrown = <<Str("E1")>>

\* The endpoints of module m the current request was offered to, in the
\* order they were offered.
offered(m) ==
  SelectSeq(log, LAMBDA x : x.m = m /\ x.ev \in {"valid", "skip"})

\* C20: a module offers the request to its endpoints one by one in the
\* order of its endpoint list, starting with the first; an endpoint is
\* skipped exactly when its route pattern does not match the request path,
\* and then no filter is executed and no handler invoked for it; once the
\* controller of an endpoint has handled the request, nothing more happens
\* in that module: no later endpoint is offered the request.
C20_EndpointsInOrder ==
  \A m \in DOMAIN modules :
    /\ \A i \in DOMAIN offered(m) :
         /\ offered(m)[i].e = i
         /\ offered(m)[i].ev = "skip" <=>
              ~ validate(modules[m].endpoints[i], req.pathname,
                         modules[m].ctx)
    /\ \A k \in DOMAIN log :
         log[k].m = m =>
           /\ log[k].ev = "skip" =>
                \A j \in DOMAIN log :
                  (log[j].m = m /\ log[j].e = log[k].e) => j = k
           /\ log[k].ev = "handle" =>
                \A j \in DOMAIN log : log[j].m = m => j <= k

\* A module with two endpoints that both match the request path: the
\* controller of the first one handled the request, and the second one was
\* not offered it.
C20_Witness ==
  \E m \in DOMAIN modules :
    /\ pc = "idle"
    /\ Len(modules[m].endpoints) = 2
    /\ \A e \in 1 .. 2 :
         validate(modules[m].endpoints[e], req.pathname, modules[m].ctx)
    /\ Event("handle", m, 1, 0) \in Range(log)
    /\ Len(offered(m)) = 1

====
